---------------------------- MODULE Spec2Model ----------------------------
(***************************************************************************)
(* Materials mutation engine of the renovation backend:                    *)
(*   - update_cell (backend/main.py) in database mode and JSON-file mode,  *)
(*     over the normalized store (backend/models.py,                       *)
(*     backend/services/materials_service.py), the materials.json snapshot *)
(*     and the edit history;                                               *)
(*   - the preview/confirm action store of                                 *)
(*     backend/services/agent_tools.py.                                    *)
(*                                                                         *)
(* Text values are sequences of one-character strings so that lower(),     *)
(* strip() and the substring test are computed, not assumed.  JSON values  *)
(* are tagged records [t, v].                                              *)
(***************************************************************************)
EXTENDS Integers, Sequences, FiniteSets, TLC

VARIABLES
    use_database,   \* the USE_DATABASE environment flag
    db,             \* the normalized store (PostgreSQL tables)
    materials_file, \* data/materials.json
    edit_history,   \* data/edit-history.json
    action_store,   \* agent_tools._action_store
    issued,         \* action id -> creation time, for every id handed out so far
    now,            \* datetime.now()
    commits,        \* per action id: how many transactions of the action committed
    responses,      \* per action id: what each execute_confirmed_action call returned
    pc,             \* position of each concurrent execute_confirmed_action call
    calls,          \* number of calls made so far
    last            \* what the last call returned to its caller

vars == <<use_database, db, materials_file, edit_history, action_store,
          issued, now, commits, responses, pc, calls, last>>

-----------------------------------------------------------------------------
(* Bounds of the model *)

MaxCalls == 1
MaxClock == 6
MaxActions == 1
MaxConfirms == 2
MaxAppends == 3

(* Program constants: the time to live of a stored action, in minutes (the   *)
(* clock of the model counts minutes), and the cap of the edit history      *)

TTL == 5
HistoryCap == 1000

-----------------------------------------------------------------------------
(* Text *)

UpperCase == <<"A", "B", "C", "I", "K", "P", "R", "T", "V", "Z">>
LowerCase == <<"a", "b", "c", "i", "k", "p", "r", "t", "v", "z">>

LowerChar(c) ==
    IF \E i \in 1..Len(UpperCase) : UpperCase[i] = c
    THEN LowerCase[CHOOSE i \in 1..Len(UpperCase) : UpperCase[i] = c]
    ELSE c

\* str.lower()
Lower(s) == [i \in 1..Len(s) |-> LowerChar(s[i])]

RECURSIVE LStrip(_)
LStrip(s) == IF s # <<>> /\ Head(s) = " " THEN LStrip(Tail(s)) ELSE s

RECURSIVE RStrip(_)
RStrip(s) ==
    IF s # <<>> /\ s[Len(s)] = " " THEN RStrip(SubSeq(s, 1, Len(s) - 1)) ELSE s

\* str.strip()
Strip(s) == RStrip(LStrip(s))

\* Python's  a in b  on strings
IsSubstring(a, b) ==
    \E i \in 0..(Len(b) - Len(a)) : SubSeq(b, i + 1, i + Len(a)) = a

-----------------------------------------------------------------------------
(* Text constants used by the model *)

\* log_edit: product or "(empty product)"
S_empty_product == <<"(", "e", "m", "p", "t", "y", " ", "p", "r", "o", "d", "u", "c", "t", ")">>

\* the labels of the enum mappings of materials_service.py
EnumText ==
    [ approved |-> <<"a", "p", "p", "r", "o", "v", "e", "d">>,
      alternative |-> <<"a", "l", "t", "e", "r", "n", "a", "t", "i", "v", "e">>,
      pending |-> <<"p", "e", "n", "d", "i", "n", "g">>,
      rejected |-> <<"r", "e", "j", "e", "c", "t", "e", "d">>,
      supplied_by |-> <<"s", "u", "p", "p", "l", "i", "e", "d", "_", "b", "y">>,
      change_order |-> <<"c", "h", "a", "n", "g", "e", "_", "o", "r", "d", "e", "r">>,
      ordered |-> <<"o", "r", "d", "e", "r", "e", "d">>,
      shipped |-> <<"s", "h", "i", "p", "p", "e", "d">>,
      delivered |-> <<"d", "e", "l", "i", "v", "e", "r", "e", "d">>,
      cancelled |-> <<"c", "a", "n", "c", "e", "l", "l", "e", "d">>,
      Plomberie_CVC |-> <<"P", "l", "o", "m", "b", "e", "r", "i", "e", " ", "&", " ", "C", "V", "C">>,
      Revision_de_prix |-> <<"R", "e", "v", "i", "s", "i", "o", "n", " ", "d", "e", " ", "p", "r", "i", "x">> ]

\* section ids and labels, products, hints and cell values of the catalog
Txt ==
    [ cui |-> <<"c", "u", "i">>,
      kit |-> <<"k", "i", "t">>,
      BATH |-> <<"B", "A", "T", "H">>,
      Kit |-> <<"K", "i", "t">>,
      Cuisine |-> <<"C", "u", "i", "s", "i", "n", "e">>,
      Bath |-> <<"B", "a", "t", "h">>,
      zzz |-> <<"z", "z", "z">>,
      Cat |-> <<"C", "a", "t">>,
      Tap |-> <<"T", "a", "p">>,
      ca |-> <<"c", "a">>,
      catx |-> <<"c", "a", "t", "x">>,
      ref7438 |-> <<"7", "4", "3", "8">>,
      ok |-> <<"o", "k">>,
      u1 |-> <<"u", "1">>,
      u2 |-> <<"u", "2">>,
      hello |-> <<"h", "e", "l", "l", "o">>,
      d01_02 |-> <<"0", "1", "/", "0", "2">>,
      T1p |-> <<"T", "1", "+">> ]

-----------------------------------------------------------------------------
(* JSON values *)

JNull == [t |-> "null", v |-> 0]
JStr(s) == [t |-> "str", v |-> s]
JBool(b) == [t |-> "bool", v |-> b]
JNum(n) == [t |-> "num", v |-> n]
JList(q) == [t |-> "list", v |-> q]
JDict(f) == [t |-> "dict", v |-> f]

EmptyMap == [k \in {} |-> JNull]

Put(f, k, val) == [x \in (DOMAIN f) \cup {k} |-> IF x = k THEN val ELSE f[x]]

\* Python truthiness ( if value: )
Truthy(x) ==
    CASE x.t = "null" -> FALSE
      [] x.t = "str"  -> x.v # <<>>
      [] x.t = "bool" -> x.v
      [] x.t = "num"  -> x.v # 0
      [] x.t = "list" -> x.v # <<>>
      [] x.t = "dict" -> DOMAIN x.v # {}

\* dict.get(key) of a JSON value that is a dict
DictGet(d, k) == IF d.t = "dict" /\ k \in DOMAIN d.v THEN d.v[k] ELSE JNull

RECURSIVE get_nested_value(_, _)
get_nested_value(target, parts) ==
    IF parts = <<>> THEN target
    ELSE IF target.t # "dict" \/ Head(parts) \notin DOMAIN target.v THEN JNull
    ELSE get_nested_value(target.v[Head(parts)], Tail(parts))

RECURSIVE SetNestedMap(_, _, _)
SetNestedMap(current, parts, value) ==
    IF Len(parts) = 1 THEN Put(current, parts[1], value)
    ELSE LET part == Head(parts)
             child == IF part \in DOMAIN current /\ current[part].t = "dict"
                      THEN current[part].v ELSE EmptyMap
         IN  Put(current, part, JDict(SetNestedMap(child, Tail(parts), value)))

\* set_nested_value mutates the item dict in place; this is the dict afterwards
set_nested_value(target, parts, value) ==
    JDict(SetNestedMap(target.v, parts, value))

-----------------------------------------------------------------------------
(* Enum mappings of materials_service.py.  An enum member is [t: "enum"]. *)

DbEnum(name) == [t |-> "enum", v |-> name]

\* two of the eleven labor types; the other nine entries have the same shape
map_labor_type_to_enum(labor_type) ==
    IF ~Truthy(labor_type) THEN JNull
    ELSE CASE labor_type.v = EnumText.Plomberie_CVC -> DbEnum("PLUMBING")
           [] labor_type.v = EnumText.Revision_de_prix -> DbEnum("PRICE_REVISION")
           [] OTHER -> JNull

map_labor_type_from_enum(enum_value) ==
    IF enum_value.t # "enum" THEN JNull
    ELSE CASE enum_value.v = "PLUMBING" -> JStr(EnumText.Plomberie_CVC)
           [] enum_value.v = "PRICE_REVISION" -> JStr(EnumText.Revision_de_prix)
           [] OTHER -> JNull

map_approval_status_to_enum(status) ==
    IF ~Truthy(status) THEN JNull
    ELSE LET s == Lower(status.v)
         IN  CASE s = EnumText.approved -> DbEnum("APPROVED")
               [] s = EnumText.alternative -> DbEnum("CHANGE_ORDER")
               [] s = EnumText.pending -> DbEnum("PENDING")
               [] s = EnumText.rejected -> DbEnum("REJECTED")
               [] s = EnumText.supplied_by -> DbEnum("SUPPLIED_BY")
               [] OTHER -> JNull

map_approval_status_from_enum(enum_value) ==
    IF enum_value.t # "enum" THEN JNull
    ELSE CASE enum_value.v = "APPROVED" -> JStr(EnumText.approved)
           [] enum_value.v = "CHANGE_ORDER" -> JStr(EnumText.alternative)
           [] enum_value.v = "PENDING" -> JStr(EnumText.pending)
           [] enum_value.v = "REJECTED" -> JStr(EnumText.rejected)
           [] enum_value.v = "SUPPLIED_BY" -> JStr(EnumText.supplied_by)
           [] OTHER -> JNull

map_delivery_status_to_enum(status) ==
    IF ~Truthy(status) THEN JNull
    ELSE LET s == Lower(status.v)
         IN  CASE s = EnumText.pending -> DbEnum("PENDING")
               [] s = EnumText.ordered -> DbEnum("ORDERED")
               [] s = EnumText.shipped -> DbEnum("SHIPPED")
               [] s = EnumText.delivered -> DbEnum("DELIVERED")
               [] s = EnumText.cancelled -> DbEnum("CANCELLED")
               [] OTHER -> JNull

map_delivery_status_from_enum(enum_value) ==
    IF enum_value.t # "enum" THEN JNull
    ELSE CASE enum_value.v = "PENDING" -> JStr(EnumText.pending)
           [] enum_value.v = "ORDERED" -> JStr(EnumText.ordered)
           [] enum_value.v = "SHIPPED" -> JStr(EnumText.shipped)
           [] enum_value.v = "DELIVERED" -> JStr(EnumText.delivered)
           [] enum_value.v = "CANCELLED" -> JStr(EnumText.cancelled)
           [] OTHER -> JNull

-----------------------------------------------------------------------------
(* Column conversions *)

\* Numeric(10, 2): amounts are held in thousandths, the column keeps hundredths
Numeric2(n) == ((n + 5) \div 10) * 10

\* Decimal(str(new_value)) if new_value is not None else None, as stored
ToNumeric(value) == IF value.t = "null" THEN JNull ELSE JNum(Numeric2(value.v))

\* Timestamps: the text "T<d>Z" or "T<d>+" (the same instant written with an
\* explicit +00:00 offset) denotes instant d.
Digits == <<"0", "1", "2", "3", "4", "5", "6", "7", "8", "9">>

IsIsoText(s) ==
    /\ Len(s) = 3
    /\ s[1] = "T"
    /\ \E i \in 1..Len(Digits) : Digits[i] = s[2]
    /\ s[3] \in {"Z", "+"}

\* datetime.fromisoformat(text.replace('Z', '+00:00'))
ParseIso(s) == [t |-> "instant", v |-> (CHOOSE i \in 1..Len(Digits) : Digits[i] = s[2]) - 1]

\* validated_at.astimezone(timezone.utc).isoformat().replace('+00:00', 'Z')
FormatIso(instant) == JStr(<<"T", Digits[instant.v + 1], "Z">>)

-----------------------------------------------------------------------------
(* The normalized store.                                                   *)
(*   db.sections  : the sections rows, in id order                         *)
(*   db.items     : item id -> items row                                   *)
(*   db.approvals : approval id -> approvals row                           *)
(*   db.urls      : the replacement_urls rows, in insertion order          *)
(*   db.orders    : item id -> orders row (item_id is unique)              *)
(*   db.comments  : <<item id, role>> -> comment_text                      *)
(*   db.next_id   : the approvals id sequence                              *)

RoleName(role_key) == IF role_key = "cray" THEN "contractor" ELSE role_key

\* session.query(Approval).filter(item_id == ..., role == ...).first()
ApprovalIds(d, item_id, role) ==
    {a \in DOMAIN d.approvals :
        d.approvals[a].item_id = item_id /\ d.approvals[a].role = role}

HasApproval(d, item_id, role) == ApprovalIds(d, item_id, role) # {}

ApprovalId(d, item_id, role) == CHOOSE a \in ApprovalIds(d, item_id, role) : TRUE

\* approval.replacement_urls
RECURSIVE UrlsOf(_, _)
UrlsOf(urls, approval_id) ==
    IF urls = <<>> THEN <<>>
    ELSE IF Head(urls).approval_id = approval_id
         THEN <<JStr(Head(urls).url)>> \o UrlsOf(Tail(urls), approval_id)
         ELSE UrlsOf(Tail(urls), approval_id)

RECURSIVE WithoutUrlsOf(_, _)
WithoutUrlsOf(urls, approval_id) ==
    IF urls = <<>> THEN <<>>
    ELSE IF Head(urls).approval_id = approval_id
         THEN WithoutUrlsOf(Tail(urls), approval_id)
         ELSE <<Head(urls)>> \o WithoutUrlsOf(Tail(urls), approval_id)

\* Section.items / the items of a section sorted by id
RECURSIVE SortedIds(_)
SortedIds(ids) ==
    IF ids = {} THEN <<>>
    ELSE LET m == CHOOSE x \in ids : \A y \in ids : x <= y
         IN  <<m>> \o SortedIds(ids \ {m})

ItemsOfSection(d, section_id) ==
    SortedIds({i \in DOMAIN d.items : d.items[i].section_id = section_id})

Remove(f, k) == [x \in (DOMAIN f) \ {k} |-> f[x]]

-----------------------------------------------------------------------------
(* The denormalized export *)

ApprovalJson(d, item_id, role) ==
    IF ~HasApproval(d, item_id, role) THEN JDict(EmptyMap)
    ELSE LET a == ApprovalId(d, item_id, role)
             row == d.approvals[a]
         IN  JDict([status |-> map_approval_status_from_enum(row.status),
                    note |-> row.note,
                    validatedAt |-> IF row.validated_at.t = "instant"
                                    THEN FormatIso(row.validated_at) ELSE JNull,
                    replacementUrls |-> JList(UrlsOf(d.urls, a))])

OrderJson(d, item_id) ==
    IF item_id \notin DOMAIN d.orders THEN JDict(EmptyMap)
    ELSE LET o == d.orders[item_id]
         IN  JDict([ordered |-> JBool(o.ordered),
                    orderDate |-> o.order_date,
                    delivery |-> JDict([date |-> o.delivery_date,
                                        status |-> map_delivery_status_from_enum(o.delivery_status)]),
                    quantity |-> o.quantity])

CommentJson(d, item_id, role) ==
    IF <<item_id, role>> \in DOMAIN d.comments
    THEN d.comments[<<item_id, role>>] ELSE JNull

\* sections created by this engine carry no project, so no "chantier" key
item_to_json(d, item_id) ==
    LET item == d.items[item_id]
        base == [product |-> item.product,
                 reference |-> item.reference,
                 supplierLink |-> item.supplier_link,
                 price |-> JDict([ttc |-> item.price_ttc,
                                  htQuote |-> item.price_ht_quote]),
                 approvals |-> JDict([client |-> ApprovalJson(d, item_id, "client"),
                                      cray |-> ApprovalJson(d, item_id, "contractor")]),
                 order |-> OrderJson(d, item_id),
                 comments |-> JDict([client |-> CommentJson(d, item_id, "client"),
                                     cray |-> CommentJson(d, item_id, "contractor")])]
    IN  JDict(IF item.labor_type.t = "enum"
              THEN Put(base, "laborType", map_labor_type_from_enum(item.labor_type))
              ELSE base)

get_materials_dict(d) ==
    [currency |-> "EUR",
     sections |->
        [s \in 1..Len(d.sections) |->
            [id |-> d.sections[s].id,
             label |-> d.sections[s].label,
             items |-> LET ids == ItemsOfSection(d, d.sections[s].id)
                       IN  [k \in 1..Len(ids) |-> item_to_json(d, ids[k])]]]]

-----------------------------------------------------------------------------
(* Table constraints of models.py, checked when the session is flushed *)

IsDigit(c) == \E i \in 1..Len(Digits) : Digits[i] = c

\* order_date ~ '^\d{2}/\d{2}$'
IsDayMonth(x) ==
    /\ x.t = "str"
    /\ Len(x.v) = 5
    /\ IsDigit(x.v[1]) /\ IsDigit(x.v[2]) /\ x.v[3] = "/"
    /\ IsDigit(x.v[4]) /\ IsDigit(x.v[5])

ItemRowValid(d, i) ==
    LET row == d.items[i]
    IN  /\ row.product.t = "str"
        /\ Strip(row.product.v) # <<>>
        /\ row.price_ttc.t = "null" \/ row.price_ttc.v >= 0
        /\ row.price_ht_quote.t = "null" \/ row.price_ht_quote.v >= 0
        /\ \A j \in DOMAIN d.items :
              (d.items[j].section_id = row.section_id
                  /\ d.items[j].product = row.product) => j = i

\* the orders table without the constraint orders_ordered_with_date
OrderRowValidLax(o) ==
    /\ o.quantity.t = "null" \/ o.quantity.v > 0
    /\ o.order_date.t = "null" \/ IsDayMonth(o.order_date)
    /\ o.delivery_date.t = "null" \/ IsDayMonth(o.delivery_date)

OrderRowValid(o) ==
    /\ o.quantity.t = "null" \/ o.quantity.v > 0
    /\ o.order_date.t = "null" \/ IsDayMonth(o.order_date)
    /\ o.delivery_date.t = "null" \/ IsDayMonth(o.delivery_date)
    /\ \/ ~o.ordered /\ o.order_date.t = "null"
       \/ o.ordered /\ o.order_date.t # "null"

ConstraintsHold(d) ==
    /\ \A i \in DOMAIN d.items : ItemRowValid(d, i)
    /\ \A a \in DOMAIN d.approvals : d.approvals[a].role \in {"client", "contractor"}
    /\ \A i \in DOMAIN d.orders : OrderRowValid(d.orders[i])
    /\ \A k \in DOMAIN d.comments : k[2] \in {"client", "contractor"}

-----------------------------------------------------------------------------
(* materials_service.update_item_field.  The result carries the session    *)
(* state at the point the function returns or raises:                      *)
(*   ok               returned the item                                    *)
(*   not_found        ValueError, section or item index                    *)
(*   product_mismatch ValueError, hint                                     *)
(*   unknown_field    ValueError, field path                               *)
(*   value_error      ValueError of datetime.fromisoformat                 *)
(*   error            any other exception                                  *)

Res(status, d) == [status |-> status, d |-> d]

\* session.delete(approval): the relationship cascades to replacement_urls
DeleteApproval(d, a) ==
    [d EXCEPT !.approvals = Remove(@, a), !.urls = WithoutUrlsOf(@, a)]

NewApproval(d, item_id, role_name, status_enum) ==
    [d EXCEPT !.approvals = Put(@, d.next_id,
                                [item_id |-> item_id, role |-> role_name,
                                 status |-> status_enum, note |-> JNull,
                                 validated_at |-> JNull]),
              !.next_id = @ + 1]

RECURSIVE AppendUrls(_, _, _)
AppendUrls(urls, a, list) ==
    IF list = <<>> THEN urls
    ELSE AppendUrls(IF Truthy(Head(list))
                    THEN Append(urls, [approval_id |-> a, url |-> Head(list).v])
                    ELSE urls,
                    a, Tail(list))

UpdateApprovalField(d, item_id, parts, new_value) ==
    IF Len(parts) < 2 THEN Res("error", d)
    ELSE
    LET role_name == RoleName(parts[2])
        field == IF Len(parts) > 2 THEN parts[3] ELSE "None"
        has == HasApproval(d, item_id, role_name)
        a == ApprovalId(d, item_id, role_name)
    IN  CASE field = "status" ->
                IF Truthy(new_value)
                THEN IF has
                     THEN Res("ok", [d EXCEPT !.approvals[a].status =
                                        map_approval_status_to_enum(new_value)])
                     ELSE Res("ok", NewApproval(d, item_id, role_name,
                                        map_approval_status_to_enum(new_value)))
                ELSE IF has THEN Res("ok", DeleteApproval(d, a)) ELSE Res("ok", d)
          [] field = "note" ->
                IF has THEN Res("ok", [d EXCEPT !.approvals[a].note = new_value])
                ELSE Res("ok", d)
          [] field = "validatedAt" ->
                IF ~has THEN Res("ok", d)
                ELSE IF ~Truthy(new_value)
                     THEN Res("ok", [d EXCEPT !.approvals[a].validated_at = JNull])
                ELSE IF IsIsoText(new_value.v)
                     THEN Res("ok", [d EXCEPT !.approvals[a].validated_at =
                                                  ParseIso(new_value.v)])
                ELSE Res("value_error", d)
          [] field = "replacementUrls" ->
                IF ~has THEN Res("ok", d)
                ELSE LET cleared == WithoutUrlsOf(d.urls, a)
                     IN  Res("ok", [d EXCEPT !.urls =
                                       IF new_value.t = "list"
                                       THEN AppendUrls(cleared, a, new_value.v)
                                       ELSE cleared])
          [] OTHER -> Res("unknown_field", d)

NewOrder ==
    [ordered |-> FALSE, order_date |-> JNull, delivery_date |-> JNull,
     delivery_status |-> JNull, quantity |-> JNull]

UpdateOrderField(d, item_id, parts, new_value) ==
    LET field == IF Len(parts) > 1 THEN parts[2] ELSE "None"
        d1 == IF item_id \in DOMAIN d.orders THEN d
              ELSE [d EXCEPT !.orders = Put(@, item_id, NewOrder)]
    IN  CASE field = "ordered" ->
                Res("ok", [d1 EXCEPT !.orders[item_id].ordered = Truthy(new_value)])
          [] field = "orderDate" ->
                Res("ok", [d1 EXCEPT !.orders[item_id].order_date = new_value])
          [] field = "delivery" ->
                IF new_value.t = "dict"
                THEN Res("ok", [d1 EXCEPT
                        !.orders[item_id].delivery_date = DictGet(new_value, "date"),
                        !.orders[item_id].delivery_status =
                            map_delivery_status_to_enum(DictGet(new_value, "status"))])
                ELSE Res("ok", d1)
          [] field = "quantity" ->
                Res("ok", [d1 EXCEPT !.orders[item_id].quantity = new_value])
          [] OTHER -> Res("unknown_field", d1)

UpdateCommentField(d, item_id, parts, new_value) ==
    LET role_name == IF Len(parts) > 1 THEN RoleName(parts[2]) ELSE "None"
        key == <<item_id, role_name>>
    IN  IF Truthy(new_value)
        THEN Res("ok", [d EXCEPT !.comments = Put(@, key, new_value)])
        ELSE IF key \in DOMAIN d.comments
             THEN Res("ok", [d EXCEPT !.comments = Remove(@, key)])
             ELSE Res("ok", d)

UpdateDirectField(d, item_id, parts, new_value) ==
    CASE parts = <<"product">> ->
            Res("ok", [d EXCEPT !.items[item_id].product = new_value])
      [] parts = <<"reference">> ->
            Res("ok", [d EXCEPT !.items[item_id].reference = new_value])
      [] parts = <<"supplierLink">> ->
            Res("ok", [d EXCEPT !.items[item_id].supplier_link = new_value])
      [] parts = <<"laborType">> ->
            Res("ok", [d EXCEPT !.items[item_id].labor_type =
                                    map_labor_type_to_enum(new_value)])
      [] parts = <<"price", "ttc">> ->
            Res("ok", [d EXCEPT !.items[item_id].price_ttc = ToNumeric(new_value)])
      [] parts = <<"price", "htQuote">> ->
            Res("ok", [d EXCEPT !.items[item_id].price_ht_quote = ToNumeric(new_value)])
      [] OTHER -> Res("unknown_field", d)

\* hint_matches = (hint_lower in product) or (product in hint_lower)
\* a looser comparison: one shared letter is enough
HintMatchesAnyLetter(hint, product) ==
    \E i \in 1..Len(hint), j \in 1..Len(product) : Lower(hint)[i] = Lower(product)[j]

HintMatches(hint, product) ==
    \/ IsSubstring(Lower(hint), Lower(product))
    \/ IsSubstring(Lower(product), Lower(hint))

SectionExists(d, section_id) ==
    \E s \in 1..Len(d.sections) : d.sections[s].id = section_id

update_item_field(d, section_id, item_index, parts, new_value, hint) ==
    LET ids == ItemsOfSection(d, section_id)
    IN  IF ~SectionExists(d, section_id) THEN Res("not_found", d)
        ELSE IF item_index < 0 \/ item_index >= Len(ids) THEN Res("not_found", d)
        ELSE LET item_id == ids[item_index + 1]
             IN  IF Truthy(hint) /\ ~HintMatches(hint.v, d.items[item_id].product.v)
                 THEN Res("product_mismatch", d)
                 ELSE CASE parts[1] = "approvals" ->
                               UpdateApprovalField(d, item_id, parts, new_value)
                        [] parts[1] = "order" ->
                               UpdateOrderField(d, item_id, parts, new_value)
                        [] parts[1] = "comments" ->
                               UpdateCommentField(d, item_id, parts, new_value)
                        [] OTHER ->
                               UpdateDirectField(d, item_id, parts, new_value)

-----------------------------------------------------------------------------
(* materials_service.json_to_item and save_materials_dict: the upsert of a  *)
(* whole document.  A result is Res("ok", session) or Res("error", session). *)

\* dict.get(key, default)
DictGetOr(d, k, default) == IF k \in DOMAIN d.v THEN d.v[k] ELSE default

\* the accesses json_to_item makes without a guard: item_data["product"],
\* .get(...).get(...) on price, approvals, order and order.delivery, the loop
\* over replacementUrls, validatedAt.replace; FALSE when one of them raises
Readable(item_data) ==
    LET price == DictGetOr(item_data, "price", JDict(EmptyMap))
        approvals == DictGetOr(item_data, "approvals", JDict(EmptyMap))
        order == DictGetOr(item_data, "order", JDict(EmptyMap))
        comments == DictGetOr(item_data, "comments", JDict(EmptyMap))
        ApprovalReadable(role_key) ==
            LET approval_data == DictGetOr(approvals, role_key, JDict(EmptyMap))
            IN  \/ ~Truthy(approval_data)
                \/ /\ approval_data.t = "dict"
                   /\ DictGet(approval_data, "status").t \in {"null", "str"}
                   /\ DictGet(approval_data, "validatedAt").t \in {"null", "str"}
                   /\ DictGetOr(approval_data, "replacementUrls", JList(<<>>)).t = "list"
    IN  /\ "product" \in DOMAIN item_data.v
        /\ price.t = "dict"
        /\ approvals.t = "dict"
        /\ ApprovalReadable("client") /\ ApprovalReadable("cray")
        /\ ~Truthy(order) \/ (order.t = "dict"
                               /\ DictGetOr(order, "delivery", JDict(EmptyMap)).t = "dict")
        /\ comments.t = "dict"

SaveApproval(d, item_id, role_key, approvals_data) ==
    LET approval_data == DictGetOr(approvals_data, role_key, JDict(EmptyMap))
        role_name == RoleName(role_key)
        has == HasApproval(d, item_id, role_name)
        a == IF has THEN ApprovalId(d, item_id, role_name) ELSE d.next_id
        validatedAt == DictGet(approval_data, "validatedAt")
        row == [item_id |-> item_id, role |-> role_name,
                status |-> map_approval_status_to_enum(DictGet(approval_data, "status")),
                note |-> DictGet(approval_data, "note"),
                validated_at |-> IF Truthy(validatedAt) THEN ParseIso(validatedAt.v)
                                 ELSE JNull]
        urls == DictGetOr(approval_data, "replacementUrls", JList(<<>>))
    IN  IF Truthy(approval_data) /\ Truthy(DictGet(approval_data, "status"))
        THEN IF Truthy(validatedAt) /\ ~IsIsoText(validatedAt.v)
             THEN Res("error", d)
             ELSE Res("ok", [d EXCEPT
                      !.approvals = Put(@, a, row),
                      !.next_id = IF has THEN @ ELSE @ + 1,
                      !.urls = AppendUrls(WithoutUrlsOf(@, a), a, urls.v)])
        ELSE IF has THEN Res("ok", DeleteApproval(d, a)) ELSE Res("ok", d)

\* ordered is a NOT NULL Boolean column
SaveOrder(d, item_id, order_data) ==
    LET delivery == DictGetOr(order_data, "delivery", JDict(EmptyMap))
        ordered == DictGetOr(order_data, "ordered", JBool(FALSE))
        row == [ordered |-> ordered.v,
                order_date |-> DictGet(order_data, "orderDate"),
                delivery_date |-> DictGet(delivery, "date"),
                delivery_status |->
                    IF Truthy(delivery)
                    THEN map_delivery_status_to_enum(DictGet(delivery, "status"))
                    ELSE JNull,
                quantity |-> DictGet(order_data, "quantity")]
    IN  IF Truthy(order_data)
        THEN IF ordered.t # "bool" THEN Res("error", d)
             ELSE Res("ok", [d EXCEPT !.orders = Put(@, item_id, row)])
        ELSE IF item_id \in DOMAIN d.orders
             THEN Res("ok", [d EXCEPT !.orders = Remove(@, item_id)])
             ELSE Res("ok", d)

SaveComment(d, item_id, role_key, comments_data) ==
    LET comment_text == DictGet(comments_data, role_key)
        key == <<item_id, RoleName(role_key)>>
    IN  IF Truthy(comment_text)
        THEN Res("ok", [d EXCEPT !.comments = Put(@, key, comment_text)])
        ELSE IF key \in DOMAIN d.comments
             THEN Res("ok", [d EXCEPT !.comments = Remove(@, key)])
             ELSE Res("ok", d)

json_to_item(d, section_id, item_data) ==
    LET product == DictGet(item_data, "product")
        existing == {i \in DOMAIN d.items :
                        d.items[i].section_id = section_id /\ d.items[i].product = product}
        item_id == IF existing # {} THEN CHOOSE i \in existing : \A j \in existing : i <= j
                   ELSE Len(d.items) + 1
        columns == [section_id |-> section_id, product |-> product,
                    reference |-> DictGet(item_data, "reference"),
                    supplier_link |-> DictGet(item_data, "supplierLink"),
                    labor_type |-> map_labor_type_to_enum(DictGet(item_data, "laborType")),
                    price_ttc |-> ToNumeric(get_nested_value(item_data, <<"price", "ttc">>)),
                    price_ht_quote |->
                        ToNumeric(get_nested_value(item_data, <<"price", "htQuote">>))]
        approvals_data == DictGetOr(item_data, "approvals", JDict(EmptyMap))
        order_data == DictGetOr(item_data, "order", JDict(EmptyMap))
        comments_data == DictGetOr(item_data, "comments", JDict(EmptyMap))
        \* the session after each step, one step feeding the next
        s0 == {Res("ok", [d EXCEPT !.items = Put(@, item_id, columns)])}
        s1 == {SaveApproval(r.d, item_id, "client", approvals_data) : r \in s0}
        s2 == {IF r.status # "ok" THEN r
               ELSE SaveApproval(r.d, item_id, "cray", approvals_data) : r \in s1}
        s3 == {IF r.status # "ok" THEN r
               ELSE SaveOrder(r.d, item_id, order_data) : r \in s2}
        s4 == {IF r.status # "ok" THEN r
               ELSE SaveComment(r.d, item_id, "client", comments_data) : r \in s3}
        s5 == {IF r.status # "ok" THEN r
               ELSE SaveComment(r.d, item_id, "cray", comments_data) : r \in s4}
    IN  IF ~Readable(item_data) THEN Res("error", d)
        ELSE CHOOSE r \in s5 : TRUE

\* the items of one section, in document order; items whose product is empty
\* after strip() are skipped
RECURSIVE SaveItems(_, _, _)
SaveItems(d, section_id, items) ==
    IF items = <<>> THEN Res("ok", d)
    ELSE LET item_data == Head(items)
             product == DictGetOr(item_data, "product", JStr(<<>>))
         IN  IF product.t # "str" THEN Res("error", d)
             ELSE IF Strip(product.v) = <<>>
                  THEN SaveItems(d, section_id, Tail(items))
                  ELSE CHOOSE out \in
                           {IF r.status # "ok" THEN r
                            ELSE SaveItems(r.d, section_id, Tail(items)) :
                               r \in {json_to_item(d, section_id, item_data)}} : TRUE

\* the order of the characters the section ids of the model are written in
Alphabet == <<"c", "i", "k", "t", "u", "z">>

Rank(c) == IF \E i \in 1..Len(Alphabet) : Alphabet[i] = c
           THEN CHOOSE i \in 1..Len(Alphabet) : Alphabet[i] = c ELSE 0

\* a < b on section ids, as order_by(Section.id) compares them
RECURSIVE TextLess(_, _)
TextLess(a, b) ==
    IF b = <<>> THEN FALSE
    ELSE IF a = <<>> THEN TRUE
    ELSE IF Rank(Head(a)) # Rank(Head(b)) THEN Rank(Head(a)) < Rank(Head(b))
    ELSE TextLess(Tail(a), Tail(b))

\* find the section and set its label, or create it
UpsertSection(sections, id, label) ==
    IF \E s \in 1..Len(sections) : sections[s].id = id
    THEN [s \in 1..Len(sections) |->
             IF sections[s].id = id THEN [id |-> id, label |-> label] ELSE sections[s]]
    ELSE LET before == SelectSeq(sections, LAMBDA row : TextLess(row.id, id))
             after == SelectSeq(sections, LAMBDA row : ~TextLess(row.id, id))
         IN  before \o <<[id |-> id, label |-> label]>> \o after

RECURSIVE SaveSections(_, _)
SaveSections(d, sections_data) ==
    IF sections_data = <<>> THEN Res("ok", d)
    ELSE LET section_data == Head(sections_data)
             d1 == [d EXCEPT !.sections =
                        UpsertSection(@, section_data.id, section_data.label)]
         IN  CHOOSE out \in
                 {IF r.status # "ok" THEN r ELSE SaveSections(r.d, Tail(sections_data)) :
                     r \in {SaveItems(s, section_data.id, section_data.items) :
                               s \in {d1}}} : TRUE

save_materials_dict(materials_data, d) == SaveSections(d, materials_data.sections)

-----------------------------------------------------------------------------
(* backend/main.py *)

normalize_identifier(value) == Lower(Strip(value))

\* index of the first section whose id or label matches, 0 for None
match_section(sections, identifier) ==
    LET target == normalize_identifier(identifier)
        hits == {s \in 1..Len(sections) :
                    \/ target = normalize_identifier(sections[s].id)
                    \/ target = normalize_identifier(sections[s].label)}
    IN  IF target = <<>> \/ hits = {} THEN 0
        ELSE CHOOSE s \in hits : \A r \in hits : s <= r

\* an append that never evicts
log_edit_uncapped(history, entry) == Append(history, entry)

\* history[-1000:] after the append
log_edit(history, entry) ==
    LET h == Append(history, entry)
    IN  IF Len(h) > HistoryCap THEN SubSeq(h, Len(h) - HistoryCap + 1, Len(h)) ELSE h

EditEntry(section_id, section_label, item_index, product, parts, old_value, new_value, source) ==
    [section_id |-> section_id, section_label |-> section_label,
     item_index |-> item_index,
     product |-> IF Truthy(product) THEN product.v ELSE S_empty_product,
     field_path |-> parts, old_value |-> old_value, new_value |-> new_value,
     source |-> source]

\* the isinstance(list) block of update_cell: TRUE when the update is refused
SuspiciousArray(old_value, new_value) ==
    /\ old_value.t = "list"
    /\ new_value.t = "list"
    /\ Len(new_value.v) > Len(old_value.v) + 1

\* the validation chain both branches share up to the no-change check:
\* the section index, or the error
Locate(data, section_id, item_index) ==
    LET s == match_section(data.sections, section_id)
    IN  IF s = 0 THEN [status |-> "not_found", s |-> 0]
        ELSE IF item_index < 0 \/ item_index >= Len(data.sections[s].items)
             THEN [status |-> "not_found", s |-> s]
             ELSE [status |-> "ok", s |-> s]

\* a comparison that never finds the two values equal
NoChangeNever(old_value, new_value) == FALSE

\* if old_value == new_value: Python's deep equality
NoChange(old_value, new_value) == old_value = new_value

\* a session whose changes stay when the block is left by an exception
RollbackNothing(before, session) == session

\* db_session(): rollback on any exception
Rollback(before, session) == before

\* Outcome of update_cell with USE_DATABASE=true.  fail names the step of this
\* call that the environment makes fail: "commit", "log", "write" (the JSON
\* backup, whose failure is only logged) or "none".
UpdateCellDb(d, file, history, section_id, item_index, parts, new_value, hint, source, fail) ==
    LET data == get_materials_dict(d)
        loc == Locate(data, section_id, item_index)
        item == data.sections[loc.s].items[item_index + 1]
        old_value == get_nested_value(item, parts)
        r == update_item_field(d, section_id, item_index, parts, new_value, hint)
        section_label ==
            IF SectionExists(r.d, section_id)
            THEN (CHOOSE row \in {r.d.sections[k] : k \in 1..Len(r.d.sections)} :
                      row.id = section_id).label
            ELSE section_id
        updated_item ==
            r.d.items[ItemsOfSection(r.d, section_id)[item_index + 1]]
        entry == EditEntry(section_id, section_label, item_index,
                           updated_item.product, parts, old_value, new_value, source)
        Out(status, d2, file2, history2, old) ==
            [status |-> status, db |-> d2, file |-> file2, history |-> history2,
             old_value |-> old]
    IN  IF loc.status # "ok" THEN Out("not_found", d, file, history, JNull)
        ELSE IF NoChange(old_value, new_value)
             THEN Out("no_change", d, file, history, old_value)
        ELSE IF Truthy(hint) /\ ~HintMatches(hint.v, DictGet(item, "product").v)
             THEN Out("product_mismatch", d, file, history, old_value)
        ELSE IF r.status # "ok"
             THEN Out(r.status, Rollback(d, r.d), file, history, old_value)
        ELSE IF fail = "commit" \/ ~ConstraintsHold(r.d)
             THEN Out("error", Rollback(d, r.d), file, history, old_value)
        ELSE IF fail = "log"
             THEN Out("error", r.d, file, history, old_value)
        ELSE Out("ok", r.d,
                 IF fail = "write" THEN file ELSE get_materials_dict(r.d),
                 log_edit(history, entry), old_value)

\* Outcome of update_cell with USE_DATABASE=false (fail: "write", "log", "none")
UpdateCellJson(d, file, history, section_id, item_index, parts, new_value, hint, source, fail) ==
    LET data == file
        loc == Locate(data, section_id, item_index)
        section == data.sections[loc.s]
        item == section.items[item_index + 1]
        old_value == get_nested_value(item, parts)
        new_item == set_nested_value(item, parts, new_value)
        new_data == [data EXCEPT !.sections[loc.s].items[item_index + 1] = new_item]
        entry == EditEntry(section_id, section.label, item_index,
                           DictGet(new_item, "product"), parts, old_value,
                           new_value, source)
        Out(status, d2, file2, history2, old) ==
            [status |-> status, db |-> d2, file |-> file2, history |-> history2,
             old_value |-> old]
    IN  IF loc.status # "ok" THEN Out("not_found", d, file, history, JNull)
        ELSE IF NoChange(old_value, new_value)
             THEN Out("no_change", d, file, history, old_value)
        ELSE IF SuspiciousArray(old_value, new_value)
             THEN Out("suspicious_array", d, file, history, old_value)
        ELSE IF Truthy(hint) /\ ~HintMatches(hint.v, DictGet(item, "product").v)
             THEN Out("product_mismatch", d, file, history, old_value)
        ELSE IF fail = "write"
             THEN Out("error", d, file, history, old_value)
        ELSE IF fail = "log"
             THEN Out("error", d, new_data, history, old_value)
        ELSE Out("ok", d, new_data, log_edit(history, entry), old_value)

update_cell(use_db, d, file, history, section_id, item_index, parts, new_value, hint, source, fail) ==
    IF use_db
    THEN UpdateCellDb(d, file, history, section_id, item_index, parts, new_value,
                      hint, source, fail)
    ELSE UpdateCellJson(d, file, history, section_id, item_index, parts,
                        new_value, hint, source, fail)

\* a write_materials_data that raises whenever the JSON write fails
write_materials_data_surfacing(use_db, d, file, data, fail) ==
    LET saved == save_materials_dict(data, d)
        db_success == /\ use_db
                      /\ saved.status = "ok"
                      /\ ConstraintsHold(saved.d)
                      /\ fail # "commit"
    IN  IF use_db /\ ~db_success
        THEN [status |-> "error", db |-> Rollback(d, saved.d), file |-> file]
        ELSE IF fail = "write"
             THEN [status |-> "error", db |-> IF use_db THEN saved.d ELSE d, file |-> file]
             ELSE [status |-> "ok", db |-> IF use_db THEN saved.d ELSE d, file |-> data]

\* Outcome of write_materials_data(data).  fail names the step the environment
\* makes fail: "commit" (the database write), "write" (the JSON file) or "none".
write_materials_data(use_db, d, file, data, fail) ==
    LET saved == save_materials_dict(data, d)
        db_success == /\ use_db
                      /\ saved.status = "ok"
                      /\ ConstraintsHold(saved.d)
                      /\ fail # "commit"
    IN  IF use_db /\ ~db_success
        THEN [status |-> "error", db |-> Rollback(d, saved.d), file |-> file]
        ELSE IF fail = "write"
             THEN IF db_success
                  THEN [status |-> "ok", db |-> saved.d, file |-> file]
                  ELSE [status |-> "error", db |-> d, file |-> file]
             ELSE [status |-> "ok", db |-> IF use_db THEN saved.d ELSE d, file |-> data]

\* load_materials_data and the lookup of one cell in what it returns
load_materials_data(use_db, d, file) == IF use_db THEN get_materials_dict(d) ELSE file

ReadCell(data, section_id, item_index, parts) ==
    LET loc == Locate(data, section_id, item_index)
    IN  IF loc.status # "ok" THEN JNull
        ELSE get_nested_value(data.sections[loc.s].items[item_index + 1], parts)

-----------------------------------------------------------------------------
(* backend/services/agent_tools.py: the action store *)

NoResult == [t |-> "none", v |-> 0]

\* _generate_action_id: an id never handed out before
NextActionId(ids) == Cardinality(DOMAIN ids) + 1

_store_action_preview(store, action_id, preview_data, t) ==
    Put(store, action_id,
        [preview |-> preview_data, created_at |-> t, expires_at |-> t + TTL,
         executed |-> FALSE, result |-> NoResult])

\* a lookup that never checks the expiry
_get_stored_action_unexpiring(store, action_id, t) ==
    [store |-> store, found |-> action_id \in DOMAIN store]

\* the action store after the lookup, and whether an entry was returned
_get_stored_action(store, action_id, t) ==
    IF action_id \notin DOMAIN store THEN [store |-> store, found |-> FALSE]
    ELSE IF t > store[action_id].expires_at
         THEN [store |-> Remove(store, action_id), found |-> FALSE]
         ELSE [store |-> store, found |-> TRUE]

\* a search that returns the oldest pending entry
get_most_recent_unexecuted_action_oldest(store, t) ==
    LET recent == {a \in DOMAIN store :
                      ~store[a].executed /\ t <= store[a].expires_at}
    IN  IF recent = {} THEN 0
        ELSE CHOOSE a \in recent :
                 \A b \in recent : store[a].created_at <= store[b].created_at

\* the id of the most recent unexecuted action, 0 for None
get_most_recent_unexecuted_action(store, t) ==
    LET recent == {a \in DOMAIN store :
                      ~store[a].executed /\ t <= store[a].expires_at}
        newest == {a \in recent :
                      \A b \in recent : store[b].created_at <= store[a].created_at}
    IN  IF recent = {} THEN 0
        ELSE CHOOSE a \in newest : \A b \in newest : a <= b

_mark_action_executed(store, action_id, result) ==
    IF action_id \in DOMAIN store
    THEN [store EXCEPT ![action_id].executed = TRUE, ![action_id].result = result]
    ELSE store

\* the SQL function execute_update_item_field; ok = FALSE when it raises
execute_update_item_field(d, item_id, field_name, new_value) ==
    LET there == item_id \in DOMAIN d.items
    IN  CASE field_name = "price_ttc" ->
                IF new_value.t # "num" THEN [ok |-> FALSE, d |-> d]
                ELSE [ok |-> TRUE,
                      d |-> IF there
                            THEN [d EXCEPT !.items[item_id].price_ttc = ToNumeric(new_value)]
                            ELSE d]
          [] field_name = "price_ht_quote" ->
                IF new_value.t # "num" THEN [ok |-> FALSE, d |-> d]
                ELSE [ok |-> TRUE,
                      d |-> IF there
                            THEN [d EXCEPT !.items[item_id].price_ht_quote = ToNumeric(new_value)]
                            ELSE d]
          [] field_name = "product" ->
                [ok |-> TRUE,
                 d |-> IF there THEN [d EXCEPT !.items[item_id].product = new_value]
                       ELSE d]
          [] field_name = "reference" ->
                [ok |-> TRUE,
                 d |-> IF there THEN [d EXCEPT !.items[item_id].reference = new_value]
                       ELSE d]
          [] OTHER -> [ok |-> FALSE, d |-> d]

UpdatableFields == {"price_ttc", "price_ht_quote", "product", "reference"}

ColumnOf(d, item_id, field_name) ==
    CASE field_name = "price_ttc" -> d.items[item_id].price_ttc
      [] field_name = "price_ht_quote" -> d.items[item_id].price_ht_quote
      [] field_name = "product" -> d.items[item_id].product
      [] field_name = "reference" -> d.items[item_id].reference

\* the SQL function update_item_field_preview: the validator of the preview
update_item_field_preview(d, item_id, field_name, new_value, hint) ==
    IF item_id \notin DOMAIN d.items THEN "not_found"
    ELSE IF field_name \notin UpdatableFields THEN "unknown_field"
    ELSE IF ColumnOf(d, item_id, field_name) = new_value THEN "no_change"
    ELSE IF Truthy(hint) /\ ~HintMatches(hint.v, d.items[item_id].product.v)
         THEN "product_mismatch"
    ELSE "ok"

preview_update_item_field(store, ids, d, item_id, field_name, new_value, hint, t) ==
    LET verdict == update_item_field_preview(d, item_id, field_name, new_value, hint)
        action_id == NextActionId(ids)
        preview_data == [action |-> "update_item_field", item_id |-> item_id,
                         field_path |-> field_name, new_value |-> new_value]
    IN  IF item_id <= 0 THEN [status |-> "value_error", store |-> store, action_id |-> 0]
        ELSE IF verdict # "ok" THEN [status |-> verdict, store |-> store, action_id |-> 0]
        ELSE [status |-> "requires_confirmation",
              store |-> _store_action_preview(store, action_id, preview_data, t),
              action_id |-> action_id]

\* a confirm that runs the no-change check of the preview again
RunActionRevalidating(store, d, action_id, outcome) ==
    LET entry == store[action_id]
        run == execute_update_item_field(d, entry.preview.item_id,
                                         entry.preview.field_path,
                                         entry.preview.new_value)
        result == [t |-> "result", v |-> TRUE]
    IN  IF update_item_field_preview(d, entry.preview.item_id,
                                     entry.preview.field_path,
                                     entry.preview.new_value, JNull) # "ok"
        THEN [status |-> "failed", result |-> NoResult, store |-> store, db |-> d,
              ran |-> FALSE]
        ELSE [status |-> "success", result |-> result,
              store |-> _mark_action_executed(store, action_id, result),
              db |-> run.d, ran |-> TRUE]

\* The steps of execute_confirmed_action after the lookup found a pending
\* entry.  outcome is what the database does with the transaction:
\*   "ok"            the statement runs and the transaction commits
\*   "sql_error"     the statement raises inside the with block
\*   "commit_error"  the statement runs, the commit at the end of the with block fails
RunAction(store, d, action_id, outcome) ==
    LET entry == store[action_id]
        run == execute_update_item_field(d, entry.preview.item_id,
                                         entry.preview.field_path,
                                         entry.preview.new_value)
        result == [t |-> "result", v |-> TRUE]
        marked == _mark_action_executed(store, action_id, result)
    IN  IF entry.preview.action # "update_item_field" \/ outcome = "sql_error"
           \/ ~run.ok \/ ~ConstraintsHold(run.d)
        THEN [status |-> "failed", result |-> NoResult, store |-> store, db |-> d,
              ran |-> FALSE]
        ELSE IF outcome = "commit_error"
        THEN [status |-> "failed", result |-> NoResult, store |-> marked, db |-> d,
              ran |-> TRUE]
        ELSE [status |-> "success", result |-> result, store |-> marked, db |-> run.d,
              ran |-> TRUE]

\* a confirm that runs the action without looking at executed
execute_confirmed_action_unchecked(store, d, action_id, t, outcome) ==
    LET got == _get_stored_action(store, action_id, t)
    IN  IF ~got.found
        THEN [status |-> "invalid_or_expired", result |-> NoResult,
              store |-> got.store, db |-> d, ran |-> FALSE]
        ELSE RunAction(got.store, d, action_id, outcome)

execute_confirmed_action(store, d, action_id, t, outcome) ==
    LET got == _get_stored_action(store, action_id, t)
    IN  IF ~got.found
        THEN [status |-> "invalid_or_expired", result |-> NoResult,
              store |-> got.store, db |-> d, ran |-> FALSE]
        ELSE IF got.store[action_id].executed
        THEN [status |-> "already_executed", result |-> got.store[action_id].result,
              store |-> got.store, db |-> d, ran |-> FALSE]
        ELSE RunAction(got.store, d, action_id, outcome)

get_action_preview(store, action_id, t) ==
    LET got == _get_stored_action(store, action_id, t)
    IN  [store |-> got.store,
         answer |-> IF got.found
                    THEN [t |-> "preview", v |-> [action_id |-> action_id,
                              executed |-> got.store[action_id].executed,
                              expires_at |-> got.store[action_id].expires_at]]
                    ELSE JNull]

-----------------------------------------------------------------------------
(* Initial state: a catalog of two sections with one item each.  In the    *)
(* "clash" layout the label of the first section reads like the id of the  *)
(* second.                                                                 *)

Layouts == {"clean", "clash"}

InitDb(layout) ==
    [sections |-> <<[id |-> Txt.cui,
                     label |-> IF layout = "clash" THEN Txt.Kit ELSE Txt.Cuisine],
                    [id |-> Txt.kit, label |-> Txt.Bath]>>,
     items |-> <<[section_id |-> Txt.cui, product |-> JStr(Txt.Cat),
                  reference |-> JNull, supplier_link |-> JNull,
                  labor_type |-> JNull, price_ttc |-> JNull,
                  price_ht_quote |-> JNull],
                 [section_id |-> Txt.kit, product |-> JStr(Txt.Tap),
                  reference |-> JStr(Txt.ref7438), supplier_link |-> JNull,
                  labor_type |-> DbEnum("PLUMBING"), price_ttc |-> JNum(1500),
                  price_ht_quote |-> JNull]>>,
     approvals |-> <<[item_id |-> 2, role |-> "client",
                      status |-> DbEnum("APPROVED"), note |-> JStr(Txt.ok),
                      validated_at |-> JNull]>>,
     urls |-> <<[approval_id |-> 1, url |-> Txt.u1]>>,
     orders |-> [i \in {} |-> NewOrder],
     comments |-> [k \in {} |-> JNull],
     next_id |-> 2]

Procs == {1, 2}

Idle == [at |-> "idle", action_id |-> 0]

InitWith(layout, history) ==
    /\ db = InitDb(layout)
    /\ materials_file = get_materials_dict(db)
    /\ edit_history = history
    /\ action_store = <<>>
    /\ issued = <<>>
    /\ now = 0
    /\ commits = [a \in 1..(MaxActions + 1) |-> 0]
    /\ responses = [a \in 1..(MaxActions + 1) |-> <<>>]
    /\ pc = [p \in Procs |-> Idle]
    /\ calls = 0
    /\ last = [op |-> "none", status |-> "none"]

Init ==
    /\ use_database \in BOOLEAN
    /\ \E layout \in Layouts : InitWith(layout, <<>>)

-----------------------------------------------------------------------------
(* Inputs *)

\* section identifier and item index: each section by id, the second also by
\* its label in another case, an unknown section, and an index out of bounds
Targets ==
    { [section_id |-> Txt.cui, item_index |-> 0],
      [section_id |-> Txt.kit, item_index |-> 0],
      [section_id |-> Txt.BATH, item_index |-> 0],
      [section_id |-> Txt.zzz, item_index |-> 0],
      [section_id |-> Txt.cui, item_index |-> 1] }

\* hint, source and the step the environment makes fail
\* the commit exists in database mode only; "write" is the JSON backup there
\* and the JSON file itself in JSON mode
Scenarios(use_db) ==
    { [hint |-> JNull, source |-> "agent", fail |-> "none"],
      [hint |-> JStr(Txt.ca), source |-> "manual", fail |-> "none"],
      [hint |-> JStr(Txt.catx), source |-> "agent", fail |-> "none"],
      [hint |-> JNull, source |-> "agent", fail |-> "write"],
      [hint |-> JNull, source |-> "agent", fail |-> "log"] }
    \cup (IF use_db THEN {[hint |-> JNull, source |-> "agent", fail |-> "commit"]} ELSE {})

Req(parts, value) == [parts |-> parts, value |-> value]

Requests ==
    { Req(<<"reference">>, JNull),
      Req(<<"reference">>, JStr(Txt.ref7438)),
      Req(<<"price", "ttc">>, JNum(1005)),
      Req(<<"approvals", "client", "status">>, JNull),
      Req(<<"approvals", "client", "status">>, JStr(EnumText.approved)),
      Req(<<"approvals", "client", "status">>, JStr(EnumText.change_order)),
      Req(<<"approvals", "cray", "status">>, JStr(EnumText.rejected)),
      Req(<<"approvals", "client", "note">>, JStr(Txt.hello)),
      Req(<<"approvals", "client", "validatedAt">>, JStr(Txt.T1p)),
      Req(<<"approvals", "client", "replacementUrls">>, JList(<<>>)),
      Req(<<"approvals", "client", "replacementUrls">>, JList(<<JStr(Txt.u2)>>)),
      Req(<<"approvals", "client", "replacementUrls">>,
          JList(<<JStr(Txt.u1), JStr(Txt.u2)>>)),
      Req(<<"approvals", "client", "replacementUrls">>,
          JList(<<JStr(Txt.u2), JStr(Txt.u1), JStr(Txt.u2)>>)),
      Req(<<"order", "ordered">>, JBool(TRUE)),
      Req(<<"order", "orderDate">>, JStr(Txt.d01_02)),
      Req(<<"order", "quantity">>, JNum(2)),
      Req(<<"order", "delivery">>,
          JDict([date |-> JStr(Txt.d01_02), status |-> JStr(EnumText.shipped)])),
      Req(<<"order", "zzz">>, JStr(Txt.hello)),
      Req(<<"comments", "client">>, JStr(Txt.hello)),
      Req(<<"comments", "client">>, JNull),
      Req(<<"approvals", "contractor", "status">>, JStr(EnumText.approved)),
      Req(<<"order", "delivery", "date">>, JStr(Txt.d01_02)),
      Req(<<"foo", "bar">>, JStr(Txt.hello)) }

AgentItemIds == {0, 1, 2, 3}

AgentRequests ==
    { [field |-> "reference", value |-> JStr(Txt.ref7438)],
      [field |-> "reference", value |-> JNull],
      [field |-> "price_ttc", value |-> JNum(1005)],
      [field |-> "labor_type", value |-> JStr(Txt.hello)] }

-----------------------------------------------------------------------------
(* Actions *)

BrokerVars == <<action_store, issued, now, commits, responses, pc>>

\* what the caller of update_cell observes; the target is kept for the calls
\* that were accepted or met a failing file write, the failing step for the
\* calls that got that far
Call(o, target, req, sc) ==
    [op |-> "update_cell", status |-> o.status,
     fail |-> IF o.status \in {"ok", "error"} THEN sc.fail ELSE "none",
     target |-> IF o.status = "ok" \/ (o.status = "error" /\ sc.fail = "write")
                THEN target
                ELSE [section_id |-> <<>>, item_index |-> 0],
     located |-> o.status # "not_found",
     source |-> IF o.status = "ok" THEN sc.source ELSE "none",
     parts |-> req.parts, new_value |-> req.value, old_value |-> o.old_value]

UpdateCell ==
    /\ calls < MaxCalls
    /\ \E target \in Targets, req \in Requests, sc \in Scenarios(use_database) :
          LET o == update_cell(use_database, db, materials_file, edit_history,
                               target.section_id, target.item_index, req.parts,
                               req.value, sc.hint, sc.source, sc.fail)
          IN  /\ db' = o.db
              /\ materials_file' = o.file
              /\ edit_history' = o.history
              /\ last' = Call(o, target, req, sc)
    /\ calls' = calls + 1
    /\ UNCHANGED <<use_database, BrokerVars>>

\* preview_update_item_field, called at the current time, while fewer than
\* limit action ids have been handed out
PreviewWithin(limit) ==
    /\ use_database
    /\ NextActionId(issued) <= limit
    /\ \E item_id \in AgentItemIds, req \in AgentRequests, hint \in {JNull, JStr(Txt.ca)} :
          LET o == preview_update_item_field(action_store, issued, db, item_id,
                                             req.field, req.value, hint, now)
          IN  /\ action_store' = o.store
              /\ issued' = IF o.action_id = 0 THEN issued
                           ELSE Put(issued, o.action_id, now)
              /\ last' = [op |-> "preview", status |-> o.status,
                          action_id |-> o.action_id]
    /\ UNCHANGED <<use_database, db, materials_file, edit_history, now, commits,
                   responses, pc>>

Preview == PreviewWithin(MaxActions)

PreviewUpdateItemField ==
    /\ calls < MaxCalls
    /\ Preview
    /\ calls' = calls + 1

Next == UpdateCell \/ PreviewUpdateItemField

Spec == Init /\ [][Next]_vars

-----------------------------------------------------------------------------
(* update_cell and preview: properties *)

\* the errors raised by the validation of a request
Rejections == {"not_found", "no_change", "suspicious_array", "product_mismatch",
               "unknown_field", "value_error"}

Accepted == last.op = "update_cell" /\ last.status = "ok"

\* the cell an accepted update_cell wrote, read again
ReadBack(parts) ==
    ReadCell(load_materials_data(use_database, db, materials_file),
             last.target.section_id, last.target.item_index, parts)

C8_ArrayCheck ==
    [][(last'.op = "update_cell" /\ last'.located /\ last'.fail = "none"
        /\ last'.old_value.t = "list" /\ last'.new_value.t = "list"
        /\ last'.old_value # last'.new_value)
          => (last'.status = "suspicious_array"
                <=> Len(last'.new_value.v) > Len(last'.old_value.v) + 1)]_vars

VocabularyPaths ==
    {<<"reference">>, <<"price", "ttc">>,
     <<"approvals", "client", "status">>, <<"approvals", "cray", "status">>,
     <<"approvals", "client", "note">>, <<"approvals", "client", "validatedAt">>,
     <<"approvals", "client", "replacementUrls">>,
     <<"order", "ordered">>, <<"order", "orderDate">>, <<"order", "quantity">>,
     <<"order", "delivery">>, <<"comments", "client">>}

\* a section whose label reads like the id of another section
Clash ==
    \E s1, s2 \in 1..Len(db.sections) :
        /\ s1 # s2
        /\ normalize_identifier(db.sections[s1].label)
              = normalize_identifier(db.sections[s2].id)

\* C9: after update_cell accepted a write to a path of the vocabulary, reading
\* that path on the item at the same section and index returns the new value
\* (stated for catalogs where no section label reads like another section's id).
C9_ReadAfterWrite ==
    (Accepted /\ ~Clash /\ last.parts \in VocabularyPaths)
        => ReadBack(last.parts) = last.new_value

\* C10: after update_cell accepted null for approvals.<role>.status, the
\* status, note, validatedAt and replacementUrls of that role read null or
\* empty, and in every state each replacement URL belongs to an approval.
C10_Cascade ==
    /\ \A u \in 1..Len(db.urls) : db.urls[u].approval_id \in DOMAIN db.approvals
    /\ (Accepted /\ Len(last.parts) = 3 /\ last.parts[1] = "approvals"
        /\ last.parts[3] = "status" /\ last.new_value = JNull)
          => \A f \in {"status", "note", "validatedAt", "replacementUrls"} :
                ReadBack(<<"approvals", last.parts[2], f>>) \in {JNull, JList(<<>>)}

\* the primary store of the mode: the tables, or the JSON file
Primary == IF use_database THEN db ELSE materials_file

\* the field paths of the vocabulary
ListedPaths ==
    {<<"product">>, <<"reference">>, <<"supplierLink">>, <<"laborType">>,
     <<"price", "ttc">>, <<"price", "htQuote">>}
    \cup {<<"approvals", role, field>> :
             role \in {"client", "cray"},
             field \in {"status", "note", "validatedAt", "replacementUrls"}}
    \cup {<<"order", field>> : field \in {"ordered", "orderDate", "delivery", "quantity"}}
    \cup {<<"comments", role>> : role \in {"client", "cray"}}

\* C16: an update_cell whose field path is not in the vocabulary, in a call
\* where no step fails in the environment, is rejected and writes nothing,
\* and when the item exists, the value differs and the hint matches, the
\* error is the unknown field path.
C16_ClosedVocabulary ==
    [][(last'.op = "update_cell" /\ last'.parts \notin ListedPaths
        /\ last'.fail = "none")
          => /\ last'.status \in Rejections
             /\ last'.status \notin {"not_found", "no_change", "product_mismatch"}
                  => last'.status = "unknown_field"
             /\ db' = db
             /\ materials_file' = materials_file
             /\ edit_history' = edit_history]_vars

\* the sections whose id or label reads like the identifier
Matching(sections, identifier) ==
    {s \in 1..Len(sections) :
        normalize_identifier(identifier)
            \in {normalize_identifier(sections[s].id),
                 normalize_identifier(sections[s].label)}}

\* C17: for the catalog update_cell reads and every section identifier, when
\* a section has exactly that id match_section returns that section, and
\* when the identifier matches more than one section match_section returns
\* none of them.
C17_ExactIdFirst ==
    LET sections == load_materials_data(use_database, db, materials_file).sections
    IN  \A t \in Targets :
           LET s == match_section(sections, t.section_id)
           IN  /\ (\E k \in 1..Len(sections) : sections[k].id = t.section_id)
                    => (s # 0 /\ sections[s].id = t.section_id)
               /\ Cardinality(Matching(sections, t.section_id)) > 1 => s = 0

\* C11: the edit history gains an entry exactly when a mutation commits: a
\* step appends one entry, carrying the field path, the old value, the new
\* value and the source of the call, when it is a successful update_cell, and
\* leaves the history alone otherwise; and a step that changes the primary
\* store appends an entry.
C11_LedgerExactlyOnCommit ==
    [][/\ (last'.op = "update_cell" /\ last'.status = "ok")
            => /\ Len(edit_history') = Len(edit_history) + 1
               /\ SubSeq(edit_history', 1, Len(edit_history)) = edit_history
               /\ LET e == edit_history'[Len(edit_history')]
                  IN  /\ e.field_path = last'.parts
                      /\ e.old_value = last'.old_value
                      /\ e.new_value = last'.new_value
                      /\ e.source = last'.source
       /\ ~(last'.op = "update_cell" /\ last'.status = "ok")
            => edit_history' = edit_history
       /\ Primary' # Primary => edit_history' # edit_history]_vars

-----------------------------------------------------------------------------
(* The dual write: update_cell and PUT /api/materials (update_materials,    *)
(* which hands the posted document to write_materials_data), on the clean   *)
(* catalog in both modes                                                    *)

\* the document with one cell of one item replaced
WithCell(doc, s, k, parts, value) ==
    [doc EXCEPT !.sections[s].items[k] = set_nested_value(@, parts, value)]

\* the documents a client posts: the document it loaded with one edit
Documents(doc) ==
    { WithCell(doc, 2, 1, <<"reference">>, JStr(Txt.hello)),
      WithCell(doc, 2, 1, <<"price", "ttc">>, JNum(0 - 1000)),
      WithCell(doc, 2, 1, <<"price">>, JNull),
      WithCell(doc, 2, 1, <<"approvals", "client", "status">>, JNull),
      WithCell(doc, 1, 1, <<"approvals", "client">>,
               JDict([status |-> JStr(EnumText.approved), note |-> JStr(Txt.hello),
                      replacementUrls |-> JList(<<JStr(Txt.u2)>>)])),
      WithCell(doc, 1, 1, <<"order">>, JDict([ordered |-> JBool(TRUE)])),
      WithCell(doc, 1, 1, <<"order">>,
               JDict([ordered |-> JBool(TRUE), orderDate |-> JStr(Txt.d01_02),
                      quantity |-> JNum(2)])),
      WithCell(doc, 1, 1, <<"comments", "client">>, JStr(Txt.hello)),
      [doc EXCEPT !.sections[1].items = Append(@, JDict([product |-> JStr(Txt.Tap)]))],
      [doc EXCEPT !.sections = Append(@, [id |-> Txt.zzz, label |-> Txt.Bath,
                                          items |-> <<JDict([product |-> JStr(<<" ">>)])>>])] }

UpdateMaterials ==
    /\ calls < MaxCalls
    /\ \E data \in Documents(load_materials_data(use_database, db, materials_file)),
          fail \in {"none", "commit", "write"} :
          LET o == write_materials_data(use_database, db, materials_file, data, fail)
          IN  /\ db' = o.db
              /\ materials_file' = o.file
              /\ last' = [op |-> "write_materials_data", status |-> o.status,
                          fail |-> fail,
                          data |-> IF fail = "write" THEN data.sections ELSE <<>>]
    /\ calls' = calls + 1
    /\ UNCHANGED <<use_database, edit_history, BrokerVars>>

WriteInit ==
    /\ use_database \in BOOLEAN
    /\ InitWith("clean", <<>>)

WriteNext == UpdateCell \/ UpdateMaterials

WriteSpec == WriteInit /\ [][WriteNext]_vars

\* the primary write of the call failed: the database raised inside the
\* session (a step of the upsert, a constraint, the commit)
PrimaryFailed(l) ==
    \/ l.op = "write_materials_data" /\ l.status = "error"
    \/ /\ l.op = "update_cell"
       /\ l.status \in {"error", "unknown_field", "value_error"}
       /\ l.fail # "log"

\* C13: in database mode a call whose database write failed returns an error,
\* leaves the tables as they were and does not write the JSON snapshot; the
\* snapshot is written only by calls that return successfully.
C13_PrimaryFailureAborts ==
    [][use_database
          => /\ last'.fail = "commit" => last'.status = "error"
             /\ PrimaryFailed(last')
                  => /\ db' = db
                     /\ materials_file' = materials_file
                     /\ edit_history' = edit_history
             /\ materials_file' # materials_file => last'.status = "ok"]_vars

\* a document refused by a table constraint, with no failure injected
C13_Witness ==
    /\ use_database
    /\ last.op = "write_materials_data"
    /\ last.status = "error"
    /\ last.fail = "none"

\* what the call that made the last step returns when the JSON write works
WithWorkingFile(l) ==
    IF l.op = "update_cell"
    THEN update_cell(use_database, db, materials_file, edit_history,
                     l.target.section_id, l.target.item_index, l.parts,
                     l.new_value, JNull, "agent", "none")
    ELSE write_materials_data(use_database, db, materials_file,
                              [currency |-> "EUR", sections |-> l.data], "none")

\* C14: in database mode, a call whose JSON write fails returns what it
\* returns when the JSON write works, and leaves the tables as that call
\* leaves them: success and the committed mutation when the database write
\* succeeds; the snapshot keeps its old content.
C14_SecondaryFailureLogged ==
    [][(use_database /\ last'.fail = "write")
          => LET expected == WithWorkingFile(last')
             IN  /\ (last'.status = "ok") = (expected.status = "ok")
                 /\ db' = expected.db
                 /\ materials_file' = materials_file]_vars

\* a document committed to the tables while the snapshot kept its content
C14_Witness ==
    /\ use_database
    /\ last.op = "write_materials_data"
    /\ last.fail = "write"
    /\ last.status = "ok"
    /\ db # InitDb("clean")
    /\ materials_file = get_materials_dict(InitDb("clean"))

\* the tables after update_item_field ran to its end on the given target
FullEffect(target, l) ==
    update_item_field(db, target.section_id, target.item_index, l.parts,
                      l.new_value, JNull).d

\* C15: a commit is atomic in the tables.  In database mode a call that
\* fails before or at its commit leaves the tables as they were, whatever
\* rows the session had created by then; after a call that committed (an
\* update_cell that returns successfully, or one whose edit-history write
\* fails afterwards) the tables are those update_item_field produces when it
\* runs to its end.
C15_AtomicCommit ==
    [][use_database
          => /\ (last'.op = "update_cell" /\ last'.status = "ok")
                  => db' = FullEffect(last'.target, last')
             /\ (last'.op = "update_cell" /\ last'.fail = "log")
                  => \E target \in Targets : db' = FullEffect(target, last')
             /\ (last'.status # "ok" /\ last'.fail # "log") => db' = db]_vars

\* an unknown order field on an item without an Order: the session created
\* the Order row and then raised; no Order is in the tables
C15_Witness ==
    /\ use_database
    /\ last.op = "update_cell"
    /\ last.status = "unknown_field"
    /\ last.parts[1] = "order"
    /\ DOMAIN db.orders = {}

-----------------------------------------------------------------------------
(* The edit history on its own: log_edit called through the endpoint        *)
(* log_edit_entry, on a history file that earlier calls have filled         *)

\* the entry the k-th earlier call appended
PastEntry(k) ==
    EditEntry(Txt.kit, Txt.Bath, 0, JStr(Txt.Tap), <<"price", "ttc">>, JNum(k - 1),
              JNum(k), "manual")

PastLengths == {0, HistoryCap - 2, HistoryCap - 1, HistoryCap}

\* the bodies a client posts
EditLogRequests ==
    { EditEntry(Txt.cui, Txt.Cuisine, 0, product, <<"reference">>, JNull, value, source) :
          product \in {JStr(Txt.Cat), JStr(<<>>)},
          value \in {JStr(Txt.ref7438), JStr(Txt.hello)},
          source \in {"agent", "manual"} }

\* POST /api/edit-history/log; fail = "log" when save_edit_history raises
LogEditEntry ==
    /\ calls < MaxAppends
    /\ \E entry \in EditLogRequests, fail \in {"none", "log"} :
          /\ edit_history' = IF fail = "log" THEN edit_history
                              ELSE log_edit(edit_history, entry)
          /\ last' = [op |-> "log_edit", status |-> IF fail = "log" THEN "error" ELSE "ok",
                      entry |-> entry]
    /\ calls' = calls + 1
    /\ UNCHANGED <<use_database, db, materials_file, BrokerVars>>

LedgerInit ==
    /\ use_database = FALSE
    /\ \E n \in PastLengths : InitWith("clean", [k \in 1..n |-> PastEntry(k)])

LedgerSpec == LedgerInit /\ [][LogEditEntry]_vars

-----------------------------------------------------------------------------
(* The confirmation broker, one call at a time *)

\* what the database does with the transaction of a confirm
Outcomes == {"ok", "sql_error", "commit_error"}

\* a token is valid when it is stored and unexpired
ValidToken(a) == a \in DOMAIN action_store /\ now <= action_store[a].expires_at

\* the TTL of the token has elapsed since it was handed out
Elapsed(a) == a \in DOMAIN issued /\ now > issued[a] + TTL

RECURSIVE Total(_, _)
Total(f, S) ==
    IF S = {} THEN 0
    ELSE LET a == CHOOSE x \in S : TRUE IN Len(f[a]) + Total(f, S \ {a})

\* the number of confirm calls made so far
Confirms == Total(responses, DOMAIN responses)

BrokerPreview ==
    /\ Preview
    /\ UNCHANGED calls

\* execute_confirmed_action, called at the current time with one of the
\* action ids and one of the outcomes of the transaction
Confirm(ids, outcomes) ==
    /\ \E a \in ids, outcome \in outcomes :
          LET o == execute_confirmed_action(action_store, db, a, now, outcome)
          IN  /\ Confirms < MaxConfirms
              /\ action_store' = o.store
              /\ db' = o.db
              /\ commits' = [commits EXCEPT
                                ![a] = @ + IF o.status = "success" THEN 1 ELSE 0]
              /\ responses' = [responses EXCEPT
                                  ![a] = Append(@, [status |-> o.status,
                                                    result |-> o.result,
                                                    ran |-> o.ran,
                                                    valid |-> ValidToken(a),
                                                    elapsed |-> Elapsed(a)])]
    /\ UNCHANGED <<use_database, materials_file, edit_history, issued, now, pc,
                   calls, last>>

ExecuteConfirmedAction == Confirm(1..MaxActions, Outcomes)

GetActionPreview ==
    /\ \E a \in 1..MaxActions :
          LET o == get_action_preview(action_store, a, now)
          IN  action_store' = o.store
    /\ UNCHANGED <<use_database, db, materials_file, edit_history, issued, now,
                   commits, responses, pc, calls, last>>

GetMostRecentUnexecutedAction ==
    /\ last' = [op |-> "most_recent", status |-> "ok",
                action_id |-> get_most_recent_unexecuted_action(action_store, now)]
    /\ UNCHANGED <<use_database, db, materials_file, edit_history, action_store,
                   issued, now, commits, responses, pc, calls>>

Tick ==
    /\ now < MaxClock
    /\ now' = now + 1
    /\ UNCHANGED <<use_database, db, materials_file, edit_history, action_store,
                   issued, commits, responses, pc, calls, last>>

BrokerInit ==
    /\ use_database = TRUE
    /\ InitWith("clean", <<>>)

BrokerNext ==
    \/ BrokerPreview
    \/ ExecuteConfirmedAction
    \/ GetActionPreview
    \/ GetMostRecentUnexecutedAction
    \/ Tick

BrokerSpec == BrokerInit /\ [][BrokerNext]_vars

-----------------------------------------------------------------------------
(* execute_confirmed_action run by two request threads.  The action store   *)
(* is a module-level dict without a lock, so the threads interleave between *)
(* the lookup, the check of executed, the statement, the mark and the       *)
(* commit at the end of the with block.                                     *)

InFlight == Cardinality({p \in Procs : pc[p].at # "idle"})

At(p, at) == [pc EXCEPT ![p].at = at]

Respond(a, status, result) ==
    responses' = [responses EXCEPT
                     ![a] = Append(@, [status |-> status, result |-> result,
                                       ran |-> status = "success",
                                       valid |-> ValidToken(a),
                                       elapsed |-> Elapsed(a)])]

\* stored_action = _get_stored_action(action_id)
Lookup(p) ==
    /\ pc[p].at = "idle"
    /\ Confirms + InFlight < MaxConfirms
    /\ \E a \in 1..MaxActions :
          LET got == _get_stored_action(action_store, a, now)
          IN  /\ action_store' = got.store
              /\ IF got.found
                 THEN /\ pc' = [pc EXCEPT ![p] = [at |-> "check", action_id |-> a]]
                      /\ UNCHANGED responses
                 ELSE /\ Respond(a, "invalid_or_expired", NoResult)
                      /\ UNCHANGED pc
    /\ UNCHANGED <<use_database, db, materials_file, edit_history, issued, now,
                   commits, calls, last>>

\* if stored_action["executed"]: return already_executed
CheckExecuted(p) ==
    /\ pc[p].at = "check"
    /\ pc[p].action_id \in DOMAIN action_store
    /\ LET a == pc[p].action_id
       IN  IF action_store[a].executed
           THEN /\ Respond(a, "already_executed", action_store[a].result)
                /\ pc' = [pc EXCEPT ![p] = Idle]
           ELSE /\ pc' = At(p, "execute")
                /\ UNCHANGED responses
    /\ UNCHANGED <<use_database, db, materials_file, edit_history, action_store,
                   issued, now, commits, calls, last>>

\* conn.execute(...) inside the with block
ExecuteStatement(p) ==
    /\ pc[p].at = "execute"
    /\ pc[p].action_id \in DOMAIN action_store
    /\ LET a == pc[p].action_id
           entry == action_store[a]
           run == execute_update_item_field(db, entry.preview.item_id,
                                            entry.preview.field_path,
                                            entry.preview.new_value)
       IN  IF run.ok /\ ConstraintsHold(run.d)
           THEN /\ pc' = At(p, "mark")
                /\ UNCHANGED responses
           ELSE /\ Respond(a, "failed", NoResult)
                /\ pc' = [pc EXCEPT ![p] = Idle]
    /\ UNCHANGED <<use_database, db, materials_file, edit_history, action_store,
                   issued, now, commits, calls, last>>

\* _mark_action_executed(action_id, {"success": success})
MarkExecuted(p) ==
    /\ pc[p].at = "mark"
    /\ action_store' = _mark_action_executed(action_store, pc[p].action_id,
                                             [t |-> "result", v |-> TRUE])
    /\ pc' = At(p, "commit")
    /\ UNCHANGED <<use_database, db, materials_file, edit_history, issued, now,
                   commits, responses, calls, last>>

\* the with block ends: the transaction commits
Commit(p) ==
    /\ pc[p].at = "commit"
    /\ pc[p].action_id \in DOMAIN action_store
    /\ LET a == pc[p].action_id
           entry == action_store[a]
           run == execute_update_item_field(db, entry.preview.item_id,
                                            entry.preview.field_path,
                                            entry.preview.new_value)
       IN  /\ db' = run.d
           /\ commits' = [commits EXCEPT ![a] = @ + 1]
           /\ Respond(a, "success", [t |-> "result", v |-> TRUE])
    /\ pc' = [pc EXCEPT ![p] = Idle]
    /\ UNCHANGED <<use_database, materials_file, edit_history, action_store,
                   issued, now, calls, last>>


\* an entry is evicted only by a lookup after its expiry; the clock stands
\* still while a confirm is in flight
ConcTick == InFlight = 0 /\ Tick

ConcNext ==
    \/ BrokerPreview
    \/ (\E p \in Procs : Lookup(p))
    \/ (\E p \in Procs : CheckExecuted(p))
    \/ (\E p \in Procs : ExecuteStatement(p))
    \/ (\E p \in Procs : MarkExecuted(p))
    \/ (\E p \in Procs : Commit(p))
    \/ ConcTick

ConcSpec == BrokerInit /\ [][ConcNext]_vars

-----------------------------------------------------------------------------
(* update_cell run by two server processes on one store.  update_cell takes *)
(* no lock and sets no isolation level: a call reads the catalog, validates *)
(* against what it read, and later writes and commits, and the other call   *)
(* can run in between.  The requests write a direct field of an item.       *)

RaceTargets ==
    { [section_id |-> Txt.kit, item_index |-> 0],
      [section_id |-> Txt.cui, item_index |-> 0] }

RaceRequests ==
    { Req(<<"reference">>, JStr(Txt.hello)),
      Req(<<"reference">>, JStr(Txt.ref7438)),
      Req(<<"reference">>, JNull) }

\* update_cell up to the end of its validation: the catalog is loaded and the
\* old value read; a rejected call returns at once
BeginUpdateCell(p) ==
    /\ pc[p].at = "idle"
    /\ calls < MaxCalls * Cardinality(Procs)
    /\ \E target \in RaceTargets, req \in RaceRequests :
          LET data == load_materials_data(use_database, db, materials_file)
              loc == Locate(data, target.section_id, target.item_index)
              item == data.sections[loc.s].items[target.item_index + 1]
              old_value == get_nested_value(item, req.parts)
              new_data == [data EXCEPT !.sections[loc.s].items[target.item_index + 1] =
                              set_nested_value(item, req.parts, req.value)]
              status == IF loc.status # "ok" THEN "not_found"
                        ELSE IF NoChange(old_value, req.value) THEN "no_change"
                        ELSE "ok"
          IN  IF status # "ok"
              THEN /\ last' = [op |-> "update_cell", status |-> status]
                   /\ UNCHANGED pc
              ELSE /\ pc' = [pc EXCEPT ![p] =
                                [at |-> "write", action_id |-> 0, target |-> target,
                                 parts |-> req.parts, new_value |-> req.value,
                                 old_value |-> old_value,
                                 label |-> data.sections[loc.s].label,
                                 product |-> DictGet(item, "product"),
                                 data |-> IF use_database THEN <<>>
                                          ELSE new_data.sections]]
                   /\ UNCHANGED last
    /\ calls' = calls + 1
    /\ UNCHANGED <<use_database, db, materials_file, edit_history, action_store,
                   issued, now, commits, responses>>

\* the rest of update_cell: the write, the commit, log_edit, the JSON backup
CommitUpdateCell(p) ==
    /\ pc[p].at = "write"
    /\ LET c == pc[p]
           r == update_item_field(db, c.target.section_id, c.target.item_index,
                                  c.parts, c.new_value, JNull)
           done == IF use_database THEN r.status = "ok" /\ ConstraintsHold(r.d)
                   ELSE TRUE
           product == IF use_database
                      THEN r.d.items[ItemsOfSection(r.d, c.target.section_id)
                                        [c.target.item_index + 1]].product
                      ELSE c.product
           entry == EditEntry(c.target.section_id, c.label, c.target.item_index,
                              product, c.parts, c.old_value, c.new_value, "agent")
       IN  /\ db' = IF use_database /\ done THEN r.d ELSE db
           /\ materials_file' =
                 IF ~done THEN materials_file
                 ELSE IF use_database THEN get_materials_dict(r.d)
                 ELSE [currency |-> "EUR", sections |-> c.data]
           /\ edit_history' = IF done THEN log_edit(edit_history, entry)
                               ELSE edit_history
           /\ last' = [op |-> "update_cell",
                       status |-> IF done THEN "ok" ELSE "error"]
    /\ pc' = [pc EXCEPT ![p] = Idle]
    /\ UNCHANGED <<use_database, action_store, issued, now, commits, responses,
                   calls>>


RaceNext ==
    \/ (\E p \in Procs : BeginUpdateCell(p))
    \/ (\E p \in Procs : CommitUpdateCell(p))

RaceSpec == WriteInit /\ [][RaceNext]_vars

\* two entries of the edit history are about the same cell
SameCell(a, b) ==
    /\ a.section_id = b.section_id
    /\ a.item_index = b.item_index
    /\ a.field_path = b.field_path

\* C18: commits against one item are serialized: of two committed writes to
\* the same cell, the later one observed as its old value the value the
\* earlier one wrote.
C18_SerializedPerItem ==
    \A i, j \in 1..Len(edit_history) :
        (/\ i < j
         /\ SameCell(edit_history[i], edit_history[j])
         /\ \A k \in (i + 1)..(j - 1) : ~SameCell(edit_history[i], edit_history[k]))
            => edit_history[j].old_value = edit_history[i].new_value

-----------------------------------------------------------------------------
(* Tokens left pending while the catalog changes: several previews are      *)
(* stored before any of them is confirmed, and rows of items are deleted    *)
(* in between.  The database does not fail here.                           *)

\* a row of items deleted by an operation outside agent_tools; the foreign
\* keys of approvals, replacement_urls, orders and comments cascade
DeleteItem ==
    /\ \E item_id \in DOMAIN db.items :
          LET gone == {a \in DOMAIN db.approvals : db.approvals[a].item_id = item_id}
          IN  db' = [db EXCEPT
                        !.items = Remove(@, item_id),
                        !.approvals = [a \in (DOMAIN @) \ gone |-> @[a]],
                        !.urls = SelectSeq(@, LAMBDA u : u.approval_id \notin gone),
                        !.orders = [i \in (DOMAIN @) \ {item_id} |-> @[i]],
                        !.comments = [k \in {c \in DOMAIN @ : c[1] # item_id} |-> @[k]]]
    /\ UNCHANGED <<use_database, materials_file, edit_history, BrokerVars, calls,
                   last>>

PendingNext ==
    \/ (PreviewWithin(MaxActions + 1) /\ UNCHANGED calls)
    \/ Confirm(1..(MaxActions + 1), {"ok"})
    \/ DeleteItem

PendingSpec == BrokerInit /\ [][PendingNext]_vars

-----------------------------------------------------------------------------
(* update_cell observed with its arguments.  No step fails in the          *)
(* environment.  In database mode the call is also put to the JSON branch, *)
(* on the export of the tables, and both answers are kept, with the        *)
(* exported item after an accepted call.                                   *)

UpdateCellObserved ==
    /\ calls < MaxCalls
    /\ \E target \in Targets, req \in Requests,
          hint \in {JNull, JStr(Txt.ca), JStr(Txt.catx)} :
          \E o \in {update_cell(use_database, db, materials_file, edit_history,
                                target.section_id, target.item_index, req.parts,
                                req.value, hint, "agent", "none")} :
          \E twin \in {IF use_database
                       THEN UpdateCellJson(db, get_materials_dict(db), edit_history,
                                           target.section_id, target.item_index,
                                           req.parts, req.value, hint, "agent",
                                           "none")
                       ELSE o} :
             /\ db' = o.db
             /\ materials_file' = o.file
             /\ edit_history' = o.history
             /\ last' = [op |-> "update_cell", status |-> o.status,
                         target |-> target, parts |-> req.parts,
                         new_value |-> req.value, hint |-> hint,
                         old_value |-> o.old_value,
                         item |-> IF o.status = "ok"
                                  THEN ReadCell(load_materials_data(use_database,
                                                                    o.db, o.file),
                                                target.section_id,
                                                target.item_index, <<>>)
                                  ELSE JNull,
                         twin_status |-> twin.status,
                         twin_item |-> IF twin.status = "ok"
                                       THEN ReadCell(twin.file, target.section_id,
                                                     target.item_index, <<>>)
                                       ELSE JNull]
    /\ calls' = calls + 1
    /\ UNCHANGED <<use_database, BrokerVars>>

ObservedSpec == Init /\ [][UpdateCellObserved]_vars

-----------------------------------------------------------------------------
(* Several tokens stored at different times: previews of a new reference   *)
(* that the validator accepts, confirms, the clock and the search for the  *)
(* most recent pending token.                                              *)

RecentNext ==
    \/ /\ PreviewWithin(MaxActions + 1)
       /\ last'.action_id # 0
       /\ action_store'[last'.action_id].preview.field_path = "reference"
       /\ UNCHANGED calls
    \/ Confirm(1..(MaxActions + 1), {"ok"})
    \/ GetMostRecentUnexecutedAction
    \/ Tick

RecentSpec == BrokerInit /\ [][RecentNext]_vars

-----------------------------------------------------------------------------
(* The confirmation broker: properties *)

Actions == 1..MaxActions

Executed(a) == a \in DOMAIN action_store /\ action_store[a].executed

\* the token can still be confirmed into a commit
Confirmable(a) == ValidToken(a) /\ ~action_store[a].executed

\* what a confirm of the token would answer now
Answer(a) == execute_confirmed_action(action_store, db, a, now, "ok").status

\* C1: when the same valid token is confirmed twice, the second confirm
\* answers already_executed with the result the first confirm returned, and
\* an already_executed answer stands for exactly one commit of the action.
C1_IdempotentConfirm ==
    \A a \in Actions : \A j \in 1..Len(responses[a]) :
        LET r == responses[a]
        IN  /\ \A i \in 1..(j - 1) :
                  (r[i].status = "success" /\ r[j].valid)
                      => r[j].status = "already_executed"
            /\ r[j].status = "already_executed"
                  => /\ commits[a] = 1
                     /\ \E i \in 1..(j - 1) :
                           /\ r[i].status = "success"
                           /\ r[i].result = r[j].result

C3_AtMostOneCommit == \A a \in Actions : commits[a] <= 1

\* C4: after a confirm that ended in an error the entry is still pending and
\* carries no result, so an entry is executed only when its commit landed.
C4_ExecutedOnlyAfterCommit ==
    \A a \in Actions :
        /\ (Len(responses[a]) > 0 /\ a \in DOMAIN action_store
            /\ responses[a][Len(responses[a])].status = "failed")
              => /\ ~action_store[a].executed
                 /\ action_store[a].result = NoResult
        /\ Executed(a) => commits[a] >= 1

C19_ConfirmCommitsUnconditionally ==
    [][\A a \in DOMAIN responses :
          (/\ Len(responses'[a]) = Len(responses[a]) + 1
           /\ Confirmable(a)
           /\ action_store[a].preview.item_id \in DOMAIN db.items)
              => LET p == action_store[a].preview
                 IN  /\ responses'[a][Len(responses'[a])].status = "success"
                     /\ commits'[a] = commits[a] + 1
                     /\ Executed(a)'
                     /\ ColumnOf(db', p.item_id, p.field_path)
                            = IF p.field_path \in {"price_ttc", "price_ht_quote"}
                              THEN ToNumeric(p.new_value)
                              ELSE p.new_value
      ]_vars

\* two previews of the same change, both confirmed with success
C19_Witness ==
    \E a, b \in DOMAIN action_store :
        /\ a # b
        /\ action_store[a].preview = action_store[b].preview
        /\ action_store[a].preview.item_id \in DOMAIN db.items
        /\ Len(responses[a]) = 1 /\ responses[a][1].status = "success"
        /\ Len(responses[b]) = 1 /\ responses[b][1].status = "success"

\* C20: a confirm of a pending, unexpired token whose item was deleted after
\* the preview does not answer success; it answers an error, leaves the
\* entry pending and writes nothing.
C20_DeletedItemRejected ==
    [][\A a \in DOMAIN responses :
          (/\ Len(responses'[a]) = Len(responses[a]) + 1
           /\ Confirmable(a)
           /\ action_store[a].preview.item_id \notin DOMAIN db.items)
              => /\ responses'[a][Len(responses'[a])].status = "failed"
                 /\ commits'[a] = commits[a]
                 /\ db' = db
      ]_vars

\* the entries a search made now may return: pending and unexpired
Pending == {a \in DOMAIN action_store : Confirmable(a)}

\* C21: get_most_recent_unexecuted_action returns nothing exactly when no
\* stored entry is both unexecuted and unexpired at the time of the call;
\* otherwise it returns such an entry, never an executed or expired one, and
\* no other such entry was created later.  Stated of a call made in any
\* reachable state of the store and the clock.
C21_MostRecentPending ==
    LET answer == get_most_recent_unexecuted_action(action_store, now)
    IN  /\ answer = 0 <=> Pending = {}
        /\ answer # 0
              => /\ answer \in Pending
                 /\ \A b \in Pending :
                       action_store[b].created_at <= action_store[answer].created_at

\* the search returned the later of two pending entries
C21_Witness ==
    /\ last.op = "most_recent"
    /\ last.action_id \in Pending
    /\ last.action_id = get_most_recent_unexecuted_action(action_store, now)
    /\ \E b \in Pending :
          action_store[b].created_at < action_store[last.action_id].created_at

-----------------------------------------------------------------------------
(* The export and the store: properties *)

\* the store with no rows
EmptyDb ==
    [sections |-> <<>>, items |-> <<>>, approvals |-> <<>>, urls |-> <<>>,
     orders |-> [i \in {} |-> NewOrder], comments |-> [k \in {} |-> JNull],
     next_id |-> 1]

\* the export of the store derived from the export of d, saved over into
\* the store target
RoundTrip(d, target) ==
    LET r == save_materials_dict(get_materials_dict(d), target)
    IN  IF r.status = "ok" /\ ConstraintsHold(r.d) THEN get_materials_dict(r.d)
        ELSE JNull

\* C22: after any committed mutation, the export of the store, saved again
\* into the store it came from or into an empty store, gives a store with
\* the same export: the same items under (section, product) with the same
\* value in every field.
C22_RoundTripExport ==
    use_database
        => /\ RoundTrip(db, db) = get_materials_dict(db)
           /\ RoundTrip(db, EmptyDb) = get_materials_dict(db)

C24_ClosedStatusEnumeration ==
    /\ \A a \in DOMAIN db.approvals :
          db.approvals[a].status
              \in {DbEnum(n) : n \in {"APPROVED", "REJECTED", "CHANGE_ORDER",
                                      "PENDING", "SUPPLIED_BY"}}
    /\ (Accepted /\ ~Clash /\ Len(last.parts) = 3 /\ last.parts[1] = "approvals"
        /\ last.parts[3] = "status" /\ last.new_value.t = "str"
        /\ last.new_value.v \in {EnumText.approved, EnumText.rejected,
                                  EnumText.change_order, EnumText.pending,
                                  EnumText.supplied_by})
          => ReadBack(last.parts) = last.new_value

\* two documents with the same sections, the same items and the same value
\* at every field path of the vocabulary; a missing key, null and an empty
\* value count as the same
SameCatalog(a, b) ==
    /\ Len(a.sections) = Len(b.sections)
    /\ \A s \in 1..Len(a.sections) :
          /\ a.sections[s].id = b.sections[s].id
          /\ a.sections[s].label = b.sections[s].label
          /\ Len(a.sections[s].items) = Len(b.sections[s].items)
          /\ \A k \in 1..Len(a.sections[s].items), parts \in ListedPaths :
                LET x == get_nested_value(a.sections[s].items[k], parts)
                    y == get_nested_value(b.sections[s].items[k], parts)
                IN  x = y \/ (~Truthy(x) /\ ~Truthy(y))

\* C25: in database mode, after a successful update_cell or
\* write_materials_data whose JSON write succeeded too, the JSON snapshot
\* holds the same sections, items and field values as the export of the
\* tables.
C25_SnapshotIsExport ==
    (use_database /\ last.op \in {"update_cell", "write_materials_data"}
     /\ last.status = "ok" /\ last.fail = "none")
        => SameCatalog(materials_file, get_materials_dict(db))

-----------------------------------------------------------------------------
(* The validator of update_cell: properties *)

\* C26: a call with a non-empty hint is accepted only when the hint is a
\* substring of the product of the item the call located in the catalog it
\* read, or that product a substring of the hint, letter case apart; a call with a non-matching hint that passed the
\* earlier checks is rejected as a product mismatch and writes nothing; a
\* call without a hint is never rejected as a product mismatch.
C26_IdentityHint ==
    [][calls' = calls + 1
          => \A product \in {ReadCell(load_materials_data(use_database, db,
                                                          materials_file),
                                      last'.target.section_id,
                                      last'.target.item_index, <<"product">>)} :
                \A matches \in {/\ last'.hint.t = "str"
                                /\ product.t = "str"
                                /\ \/ IsSubstring(Lower(last'.hint.v), Lower(product.v))
                                   \/ IsSubstring(Lower(product.v), Lower(last'.hint.v))} :
                   /\ (Truthy(last'.hint) /\ last'.status = "ok") => matches
                   /\ (Truthy(last'.hint) /\ ~matches
                       /\ last'.status \notin {"not_found", "no_change", "suspicious_array"})
                         => /\ last'.status = "product_mismatch"
                            /\ db' = db
                            /\ materials_file' = materials_file
                            /\ edit_history' = edit_history
                   /\ ~Truthy(last'.hint) => last'.status # "product_mismatch"
      ]_vars

\* a call with a hint written in another case than the product, accepted,
\* and a call with a hint of another product, refused
C26_Witness ==
    /\ last.op = "update_cell"
    /\ last.hint = JStr(Txt.ca)
    /\ \/ last.status = "ok" /\ DictGet(last.item, "product") = JStr(Txt.Cat)
       \/ last.status = "product_mismatch"

\* C27: the checks run in the order existence, no-op, array sanity, identity
\* hint: a call that fails the hint check and also the no-op check or the
\* array check is answered with the error of the earlier of its failing
\* checks, in database mode and in JSON-file mode.
C27_ValidatorOrder ==
    [][calls' = calls + 1
          => LET data == load_materials_data(use_database, db, materials_file)
                 t == last'.target
                 old == ReadCell(data, t.section_id, t.item_index, last'.parts)
                 product == ReadCell(data, t.section_id, t.item_index, <<"product">>)
                 found == Locate(data, t.section_id, t.item_index).status = "ok"
                 noop == NoChange(old, last'.new_value)
                 array == SuspiciousArray(old, last'.new_value)
                 hintbad == /\ Truthy(last'.hint)
                            /\ ~IsSubstring(Lower(last'.hint.v), Lower(product.v))
                            /\ ~IsSubstring(Lower(product.v), Lower(last'.hint.v))
             IN  (found /\ hintbad)
                    => /\ noop => last'.status = "no_change"
                       /\ (~noop /\ array) => last'.status = "suspicious_array"
      ]_vars

\* C28: in database mode an accepted call changes no item but the one its
\* section identifier and index locate in the catalog, and the old value of
\* its ledger entry is the value the changed item had at the field path
\* before the commit.
C28_ValidatedIsWritten ==
    [][(calls' = calls + 1 /\ use_database /\ last'.status = "ok")
          => LET before == get_materials_dict(db)
                 after == get_materials_dict(db')
                 entry == edit_history'[Len(edit_history')]
                 s == match_section(before.sections, last'.target.section_id)
             IN  \A k \in DOMAIN before.sections :
                    \A i \in DOMAIN before.sections[k].items :
                       before.sections[k].items[i] # after.sections[k].items[i]
                          => /\ k = s
                             /\ i = last'.target.item_index + 1
                             /\ entry.old_value
                                  = get_nested_value(before.sections[k].items[i],
                                                     last'.parts)
      ]_vars

\* C29: a call made in database mode has the answer the JSON branch gives
\* to the same call on the export of the tables: the same status, and after
\* an accepted call the same value at every field path of the exported item
\* (a missing key, null and an empty value count as the same).
C29_ModesEquivalent ==
    (use_database /\ last.op = "update_cell")
        => /\ last.twin_status = last.status
           /\ last.status = "ok"
                => \A parts \in ListedPaths :
                      LET x == get_nested_value(last.item, parts)
                          y == get_nested_value(last.twin_item, parts)
                      IN  x = y \/ (~Truthy(x) /\ ~Truthy(y))

\* C30: a call of update_cell that answers with an error leaves the tables
\* and the JSON file as they were, whichever step of the call failed.
C30_ErrorLeavesStore ==
    [][(calls' = calls + 1 /\ last'.op = "update_cell" /\ last'.status # "ok")
          => /\ db' = db
             /\ materials_file' = materials_file
      ]_vars

=============================================================================
